---- MODULE Spec2Model ----
(***************************************************************************)
(* stellae.flow: a Figma plugin that reads the prototype connections of a  *)
(* page, lays them out and composes a flow diagram.                        *)
(*                                                                         *)
(*   SpecScan    the prototype connection scanner (scanPrototypeConnections*)
(*               of code.ts), run record by record over a page tree        *)
(*   SpecColors  assignFlowColors of code.ts, applied to edge lists        *)
(***************************************************************************)
EXTENDS Integers, Sequences, FiniteSets, TLC

VARIABLES
    \* ---- scanPrototypeConnections: one run of the scanner
    scanPc,             \* "walk" while walkNode runs, "done" once the graph is returned
    walkPos,            \* index in the pre-order of the page of the node walkNode is at
    nRecords,           \* reactions read so far
    reaction,           \* the reaction the loop body has just handled
    nodeMap,            \* Map<string, FlowNode>, in insertion order
    edges,              \* FlowEdge[]
    flowStartingPoints, \* page.flowStartingPoints as read after the walk
    startingPointIds,   \* string[]
    \* ---- assignFlowColors: the edge list given and the map returned
    layoutEdges,        \* layout.edges
    flowColors,         \* Map<string, RGB>: key -> color
    \* ---- the plugin (code.ts) and the document it works on
    currentTier,        \* let currentTier: TierConfig
    diagramPage,        \* let diagramPage: PageNode | null, as an index of pages (0: null)
    pages,              \* figma.root.children
    currentPage,        \* figma.currentPage, as an index of pages
    gens,               \* the calls of generateDiagram suspended at an await
    nGen,               \* generate messages handled so far
    exports,            \* the calls of exportDiagram suspended at exportAsync
    msg,                \* the message, or the settled await, the last step handled
    scannedPage,        \* the frames of the page the last scan read
    posted,             \* the figma.ui.postMessage calls of the last step
    calls,              \* the asynchronous host calls of the last step
    uncaught            \* a failure has left figma.ui.onmessage uncaught

scanVars == <<scanPc, walkPos, nRecords, reaction, nodeMap, edges,
              flowStartingPoints, startingPointIds>>

colorVars == <<layoutEdges, flowColors>>

pluginVars == <<currentTier, diagramPage, pages, currentPage, gens, nGen, exports,
                msg, scannedPage, posted, calls, uncaught>>

vars == <<scanVars, colorVars, pluginVars>>

----------------------------------------------------------------------------
(* Bounds of the model *)

\* reactions on one page
MaxRecords == 3
\* declared flow starting points on one page
MaxMarkers == 2
\* edges of a layout given to assignFlowColors
MaxColorEdges == 6
\* top-level frames of a scanned page
MaxFound == 12
\* generate messages in one run
MaxGenerations == 2
\* calls of exportDiagram suspended at once
MaxExports == 1

----------------------------------------------------------------------------
(* The host document: the scene nodes figma.getNodeById can return *)

Null == "null"

\* The scanned page, pre-order (parent before children):
\*   f1 FRAME [ b1 INSTANCE ], f2 COMPONENT [ b2 TEXT ], f3 COMPONENT_SET, g4 GROUP
TreeOrder == <<"f1", "b1", "f2", "b2", "f3", "g4">>

TreeIds == {TreeOrder[i] : i \in 1..Len(TreeOrder)}

\* The top-level frames s1, s2, ... of the pages the plugin runs on
ChainId(i) == "s" \o ToString(i)

ChainIds == {ChainId(i) : i \in 1..MaxFound}

ParentOf(id) ==
    CASE id = "b1" -> "f1"
      [] id = "b2" -> "f2"
      [] id \in {"f1", "f2", "f3", "g4"} \cup ChainIds -> "page"
      [] id = "page" -> "root"
      [] OTHER -> Null

TypeOf(id) ==
    CASE id \in {"f1"} \cup ChainIds -> "FRAME"
      [] id = "f2" -> "COMPONENT"
      [] id = "f3" -> "COMPONENT_SET"
      [] id = "g4" -> "GROUP"
      [] id = "b1" -> "INSTANCE"
      [] id = "b2" -> "TEXT"
      [] id = "page" -> "PAGE"
      [] id = "root" -> "DOCUMENT"
      [] OTHER -> Null

NameOf(id) == "Screen " \o id

\* Reported sizes, in tenths of a unit: f1 is 375.5 x 812.7, the others 375 x 812.
WidthOf(id) == IF id = "f1" THEN 3755 ELSE 3750
HeightOf(id) == IF id = "f1" THEN 8127 ELSE 8120

\* figma.getNodeById: the node, or null for an id the document does not hold
getNodeById(id) == IF id \in TreeIds \cup ChainIds THEN id ELSE Null

\* Math.round of a non-negative number given in tenths
MathRound(tenths) == (tenths + 5) \div 10

----------------------------------------------------------------------------
(* findTopFrame *)

RECURSIVE findTopFrame(_)
findTopFrame(current) ==
    IF current = Null THEN Null
    ELSE IF ParentOf(current) # Null /\ TypeOf(ParentOf(current)) = "PAGE"
         THEN IF TypeOf(current) \in {"FRAME", "COMPONENT", "COMPONENT_SET"}
              THEN current ELSE Null
         ELSE findTopFrame(ParentOf(current))

----------------------------------------------------------------------------
(* scanPrototypeConnections *)

\* Map.has / Map.set on the insertion-ordered nodeMap
MapHas(m, id) == \E i \in 1..Len(m) : m[i].id = id

FlowNodeOfTruncating(frame) ==
    [id |-> frame, name |-> NameOf(frame),
     width |-> WidthOf(frame) \div 10, height |-> HeightOf(frame) \div 10]

FlowNodeOf(frame) ==
    [id |-> frame, name |-> NameOf(frame),
     width |-> MathRound(WidthOf(frame)), height |-> MathRound(HeightOf(frame))]

RegisterAlways(m, frame) == Append(m, FlowNodeOf(frame))

\* if (!nodeMap.has(frame.id)) nodeMap.set(frame.id, {...})
Register(m, frame) == IF MapHas(m, frame) THEN m ELSE Append(m, FlowNodeOf(frame))

RegisterSourceOnly(m, sourceFrame, destFrame) == Register(m, sourceFrame)

\* the two registrations of one qualifying reaction, source first
RegisterBoth(m, sourceFrame, destFrame) ==
    Register(Register(m, sourceFrame), destFrame)

QualifiesWithSelfLoop(sourceFrame, destFrame) ==
    sourceFrame # Null /\ destFrame # Null

\* sourceFrame && destFrame && sourceFrame.id !== destFrame.id
Qualifies(sourceFrame, destFrame) ==
    sourceFrame # Null /\ destFrame # Null /\ sourceFrame # destFrame

OrElseKeepsMissing(a, b) == a

\* a || b on strings: the empty string stands for a missing (undefined) value
OrElse(a, b) == IF a = "" THEN b ELSE a

WalkReactionRegisteringSource(acc, node, r) ==
    IF ~r.hasAction THEN acc
    ELSE IF r.destinationId = "" THEN acc
    ELSE LET sourceFrame == findTopFrame(node)
             destNode == getNodeById(r.destinationId)
             destFrame == IF destNode # Null THEN findTopFrame(destNode) ELSE Null
             seen == IF sourceFrame # Null THEN Register(acc.nodeMap, sourceFrame)
                     ELSE acc.nodeMap
         IN IF Qualifies(sourceFrame, destFrame)
            THEN [nodeMap |-> Register(seen, destFrame),
                  edges |-> Append(acc.edges,
                              [sourceId |-> sourceFrame, targetId |-> destFrame,
                               trigger |-> OrElse(r.trigger, "ON_CLICK"),
                               action |-> OrElse(r.type, "NAVIGATE")])]
            ELSE [acc EXCEPT !.nodeMap = seen]

\* A reaction: hasAction is reaction.action being set, destinationId, type are the
\* action's fields and trigger is reaction.trigger?.type; "" is a missing value.
\* The loop body of walkNode for one reaction of `node`, on acc = [nodeMap, edges].
WalkReaction(acc, node, r) ==
    IF ~r.hasAction THEN acc
    ELSE IF r.destinationId = "" THEN acc
    ELSE LET sourceFrame == findTopFrame(node)
             destNode == getNodeById(r.destinationId)
             destFrame == IF destNode # Null THEN findTopFrame(destNode) ELSE Null
         IN IF Qualifies(sourceFrame, destFrame)
            THEN [nodeMap |-> RegisterBoth(acc.nodeMap, sourceFrame, destFrame),
                  edges |-> Append(acc.edges,
                              [sourceId |-> sourceFrame, targetId |-> destFrame,
                               trigger |-> OrElse(r.trigger, "ON_CLICK"),
                               action |-> OrElse(r.type, "NAVIGATE")])]
            ELSE acc

\* the explicit markers kept: those whose nodeId the nodeMap has, in declaration order
RECURSIVE KeptMarkers(_, _)
KeptMarkers(markers, m) ==
    IF markers = <<>> THEN <<>>
    ELSE (IF MapHas(m, Head(markers)) THEN <<Head(markers)>> ELSE <<>>)
         \o KeptMarkers(Tail(markers), m)

HasIncomingBySource(es) == {es[i].sourceId : i \in 1..Len(es)}

\* new Set(edges.map(e => e.targetId))
HasIncoming(es) == {es[i].targetId : i \in 1..Len(es)}

\* for (const id of nodeMap.keys()) if (!hasIncoming.has(id)) push(id)
RECURSIVE NoIncoming(_, _)
NoIncoming(m, incoming) ==
    IF m = <<>> THEN <<>>
    ELSE (IF Head(m).id \in incoming THEN <<>> ELSE <<Head(m).id>>)
         \o NoIncoming(Tail(m), incoming)

StartingPointsAlwaysInferred(fsp, m, es) ==
    (IF fsp.defined THEN KeptMarkers(fsp.items, m) ELSE <<>>)
    \o NoIncoming(m, HasIncoming(es))

\* lines 75-93: explicit markers first, the in-degree-zero inference if none is kept
StartingPoints(fsp, m, es) ==
    LET explicit == IF fsp.defined THEN KeptMarkers(fsp.items, m) ELSE <<>>
    IN IF Len(explicit) = 0 THEN NoIncoming(m, HasIncoming(es)) ELSE explicit

----------------------------------------------------------------------------
(* assignFlowColors *)

\* FLOW_COLORS, each channel in hundredths
FLOW_COLORS ==
    <<[r |-> 18, g |-> 80, b |-> 44],
      [r |-> 91, g |-> 30, b |-> 24],
      [r |-> 20, g |-> 60, b |-> 86],
      [r |-> 95, g |-> 61, b |-> 7],
      [r |-> 56, g |-> 27, b |-> 68]>>

\* [...new Set(xs)]: the distinct values of xs in order of first appearance
RECURSIVE Distinct(_)
Distinct(xs) ==
    IF xs = <<>> THEN <<>>
    ELSE LET front == Distinct(SubSeq(xs, 1, Len(xs) - 1))
             x == xs[Len(xs)]
         IN IF \E i \in 1..Len(front) : front[i] = x THEN front ELSE Append(front, x)

\* Array.indexOf, 0-based, of a value the array holds
IndexOf(xs, x) == (CHOOSE i \in 1..Len(xs) : xs[i] = x /\ \A j \in 1..(i - 1) : xs[j] # x) - 1

\* the template string `${edge.sourceId}-${edge.targetId}`
ColorKey(e) == e.sourceId \o "-" \o e.targetId

\* Map.set on a map held as a function from its keys
MapSet(m, k, v) == [x \in DOMAIN m \cup {k} |-> IF x = k THEN v ELSE m[x]]

EmptyMap == [x \in {} |-> 0]

RECURSIVE ColorLoop(_, _, _)
ColorLoop(colorMap, es, sourceNodes) ==
    IF es = <<>> THEN colorMap
    ELSE LET edge == Head(es)
             idx == IndexOf(sourceNodes, edge.sourceId) % Len(FLOW_COLORS)
         IN ColorLoop(MapSet(colorMap, ColorKey(edge), FLOW_COLORS[idx + 1]),
                      Tail(es), sourceNodes)

assignFlowColors(es) ==
    LET sourceNodes == Distinct([i \in 1..Len(es) |-> es[i].sourceId])
    IN ColorLoop(EmptyMap, es, sourceNodes)

\* The edges a layout may hold: six distinct sources, two edges sharing the source
\* "a", and ids that themselves contain the character "-".
ColorEdges ==
    {[sourceId |-> "a-b", targetId |-> "c"],
     [sourceId |-> "a", targetId |-> "b-c"],
     [sourceId |-> "a", targetId |-> "c"],
     [sourceId |-> "b", targetId |-> "c"],
     [sourceId |-> "c", targetId |-> "a"],
     [sourceId |-> "d", targetId |-> "a"],
     [sourceId |-> "e", targetId |-> "a"]}

----------------------------------------------------------------------------
(* scanPrototypeConnections as one call, on a page given as a value:        *)
(* [order: the nodes in pre-order, reactions: the reactions of each,        *)
(*  flowStartingPoints]                                                     *)

RECURSIVE WalkReactions(_, _, _)
WalkReactions(acc, node, rs) ==
    IF rs = <<>> THEN acc
    ELSE WalkReactions(WalkReaction(acc, node, Head(rs)), node, Tail(rs))

RECURSIVE WalkNodesRegisteringFrames(_, _, _)
WalkNodesRegisteringFrames(acc, order, reactions) ==
    IF order = <<>> THEN acc
    ELSE LET seen == IF findTopFrame(Head(order)) = Head(order)
                     THEN [acc EXCEPT !.nodeMap = Register(@, Head(order))]
                     ELSE acc
             walked == WalkReactions(seen, Head(order), Head(reactions))
         IN IF Len(walked.edges) >= 0
            THEN WalkNodesRegisteringFrames(walked, Tail(order), Tail(reactions))
            ELSE walked

\* the walk over the nodes in pre-order; the accumulator of a node is evaluated
\* (its edges counted) before the walk goes on to the next node
RECURSIVE WalkNodes(_, _, _)
WalkNodes(acc, order, reactions) ==
    IF order = <<>> THEN acc
    ELSE LET walked == WalkReactions(acc, Head(order), Head(reactions))
         IN IF Len(walked.edges) >= 0
            THEN WalkNodes(walked, Tail(order), Tail(reactions))
            ELSE walked

scanPrototypeConnections(page) ==
    LET acc == WalkNodes([nodeMap |-> <<>>, edges |-> <<>>], page.order, page.reactions)
    IN [nodes |-> acc.nodeMap,
        edges |-> acc.edges,
        startingPointIds |-> StartingPoints(page.flowStartingPoints, acc.nodeMap, acc.edges)]

\* A page of n top-level frames s1 .. sn, each linked to the next by one reaction
ChainPage(n) ==
    [order |-> [i \in 1..n |-> ChainId(i)],
     reactions |-> [i \in 1..n |->
                      IF i < n
                      THEN <<[hasAction |-> TRUE, destinationId |-> ChainId(i + 1),
                              type |-> "NAVIGATE", trigger |-> "ON_CLICK"]>>
                      ELSE <<>>],
     flowStartingPoints |-> [defined |-> FALSE, items |-> <<>>]]

\* The same page with the last frame linked back to the first
RingPage(n) ==
    [ChainPage(n) EXCEPT !.reactions =
        [i \in 1..n |-> <<[hasAction |-> TRUE, destinationId |-> ChainId((i % n) + 1),
                           type |-> "NAVIGATE", trigger |-> "ON_CLICK"]>>]]

\* figma.currentPage as a scan finds it: n frames, chained or in a ring
PageShapes == {"chain", "ring"}

PageOfShape(shape, n) == IF shape = "ring" THEN RingPage(n) ELSE ChainPage(n)

----------------------------------------------------------------------------
(* Tiers (types.ts) *)

\* JavaScript values of the fields of a tier: a number, Infinity, true, false, or
\* undefined for a property the object does not have
Num(n) == [kind |-> "number", n |-> n]
Infinity == [kind |-> "Infinity", n |-> 0]
Undefined == [kind |-> "undefined", n |-> 0]
True == [kind |-> "true", n |-> 0]
False == [kind |-> "false", n |-> 0]

\* truthiness of such a value (no tier field is 0 or NaN)
Truthy(v) == v.kind \in {"number", "Infinity", "true"}

\* n > v for a number n: false when v is Infinity or undefined (NaN)
GreaterThan(n, v) == v.kind = "number" /\ n > v.n

\* `${v}`
ToText(v) == IF v.kind = "number" THEN ToString(v.n) ELSE v.kind

FreeMaxScreens == 10

\* TIERS.free and TIERS.pro
TiersFree ==
    [is |-> "TIERS.free", maxScreens |-> Num(FreeMaxScreens), flowHighlighting |-> False,
     interactionLabels |-> False, pdfExport |-> False]

TiersPro ==
    [is |-> "TIERS.pro", maxScreens |-> Infinity, flowHighlighting |-> True,
     interactionLabels |-> True, pdfExport |-> True]

\* TIERS is an object literal: beside its own keys, a property read finds the
\* members of Object.prototype, none of which has a tier field
ObjectPrototypeKeys == {"constructor", "toString", "__proto__"}

Inherited(key) ==
    [is |-> "Object.prototype." \o key, maxScreens |-> Undefined,
     flowHighlighting |-> Undefined, interactionLabels |-> Undefined,
     pdfExport |-> Undefined]

\* TIERS[name], or "undefined"
TiersLookup(name) ==
    CASE name = "free" -> TiersFree
      [] name = "pro" -> TiersPro
      [] name \in ObjectPrototypeKeys -> Inherited(name)
      [] OTHER -> [is |-> "undefined"]

SetTierNoFallback(name) == TiersLookup(name)

\* TIERS[msg.tier] || TIERS.free
SetTier(name) ==
    IF TiersLookup(name).is = "undefined" THEN TiersFree ELSE TiersLookup(name)

TierLimitExceededAtLimit(n, tier) ==
    tier.maxScreens.kind = "number" /\ n >= tier.maxScreens.n

\* graph.nodes.length > currentTier.maxScreens
TierLimitExceeded(n, tier) == GreaterThan(n, tier.maxScreens)

PdfNeverRefused(format, tier) == FALSE

\* format === 'pdf' && !currentTier.pdfExport
PdfRefused(format, tier) == format = "pdf" /\ ~Truthy(tier.pdfExport)

----------------------------------------------------------------------------
(* Messages posted to the UI. A template string is held as its parts. *)

StatusMsg(text) == [type |-> "status", message |-> <<text>>]
ErrorMsg(parts) == [type |-> "error", message |-> parts]

TierLimitMsg(tier, n) ==
    ErrorMsg(<<"Free tier supports up to ", ToText(tier.maxScreens),
               " screens. Found ", ToString(n), ". Upgrade to Pro for unlimited.">>)

\* the `scan` case of figma.ui.onmessage on a page: the messages it posts
ScanPosts(page, tier) ==
    LET graph == scanPrototypeConnections(page)
        n == Len(graph.nodes)
    IN <<StatusMsg("Scanning prototype connections...")>> \o
       (IF n = 0
        THEN <<ErrorMsg(<<"No prototype connections found on this page. Add some prototype links between frames first.">>)>>
        ELSE IF TierLimitExceeded(n, tier)
        THEN <<TierLimitMsg(tier, n)>>
        ELSE <<[type |-> "graph", graph |-> graph]>>)

----------------------------------------------------------------------------
(* The document: figma.root.children is `pages`, each [name, children]; a   *)
(* child is a top-level scene node of the page, held with its descendants.  *)

\* the suffix of the template string `${sourcePage.name} - Flow Diagram`, its
\* dash written as a hyphen
DiagramSuffix == " - Flow Diagram"

\* const THUMB_W = 300; THUMB_H = 200; PADDING = 40; CARD_PADDING = 12
THUMB_W == 300
THUMB_H == 200
PADDING == 40
CARD_PADDING == 12

\* Math.min / Math.max folded over a non-empty set of numbers
MinOf(S) == CHOOSE x \in S : \A y \in S : x <= y
MaxOf(S) == CHOOSE x \in S : \A y \in S : x >= y

\* lines 191-197: the bounding box of the nodes of a non-empty layout
BoundingBox(layout) ==
    LET K == 1..Len(layout.nodes)
    IN [minX |-> MinOf({layout.nodes[k].x : k \in K}),
        minY |-> MinOf({layout.nodes[k].y : k \in K}),
        maxX |-> MaxOf({layout.nodes[k].x + THUMB_W + CARD_PADDING * 2 : k \in K}),
        maxY |-> MaxOf({layout.nodes[k].y + THUMB_H + CARD_PADDING * 2 + 40 : k \in K})]

\* lines 212-214: the position and the size given to the card of a layout node
CardFrame(layout, node) ==
    [x |-> node.x - BoundingBox(layout).minX + PADDING,
     y |-> node.y - BoundingBox(layout).minY + PADDING,
     width |-> THUMB_W + CARD_PADDING * 2,
     height |-> THUMB_H + CARD_PADDING * 2 + 40]

ContainerSizeUnpadded(layout) ==
    [width |-> BoundingBox(layout).maxX - BoundingBox(layout).minX,
     height |-> BoundingBox(layout).maxY - BoundingBox(layout).minY]

\* lines 199-202: container.resize(maxX - minX + PADDING * 2, maxY - minY + PADDING * 2)
ContainerSize(layout) ==
    [width |-> BoundingBox(layout).maxX - BoundingBox(layout).minX + PADDING * 2,
     height |-> BoundingBox(layout).maxY - BoundingBox(layout).minY + PADDING * 2]

\* the scene nodes one generation creates, named by the generation and their part
Container(p, layout) ==
    [gen |-> p, part |-> "container", i |-> 0, name |-> "Flow Diagram", children |-> <<>>,
     width |-> ContainerSize(layout).width, height |-> ContainerSize(layout).height]
Card(p, k, layout, thumb) ==
    [gen |-> p, part |-> "card", i |-> k, name |-> "Screen: " \o layout.nodes[k].name,
     frame |-> CardFrame(layout, layout.nodes[k]),
     children |-> IF thumb THEN <<[part |-> "thumbnail", name |-> "Thumbnail"]>> ELSE <<>>]
Label(p, k, node) ==
    [gen |-> p, part |-> "label", i |-> k, name |-> node.name, children |-> <<>>]

IsNode(c, p, part, k) == c.gen = p /\ c.part = part /\ c.i = k

\* the page holding a top-level node, 0 once the node is removed
PageOf(pgs, p, part, k) ==
    IF \E j \in 1..Len(pgs) : \E x \in 1..Len(pgs[j].children) :
           IsNode(pgs[j].children[x], p, part, k)
    THEN CHOOSE j \in 1..Len(pgs) : \E x \in 1..Len(pgs[j].children) :
           IsNode(pgs[j].children[x], p, part, k)
    ELSE 0

ChildAt(pgs, j, p, part, k) ==
    pgs[j].children[CHOOSE x \in 1..Len(pgs[j].children) :
                       IsNode(pgs[j].children[x], p, part, k)]

\* figma.createFrame / createText: the new node is a child of figma.currentPage
AddChild(pgs, j, child) == [pgs EXCEPT ![j].children = Append(@, child)]

\* the node leaves the children of page j (it is re-parented by appendChild)
DropChild(pgs, j, p, part, k) ==
    LET Keep(c) == ~IsNode(c, p, part, k)
    IN [pgs EXCEPT ![j].children = SelectSeq(@, Keep)]

\* parent.appendChild(item) for a top-level node `parent` of page j
AppendInto(pgs, j, p, part, k, item) ==
    LET cs == pgs[j].children
        Grown(c) == [c EXCEPT !.children = Append(c.children, item)]
    IN [pgs EXCEPT ![j].children =
          [x \in 1..Len(cs) |-> IF IsNode(cs[x], p, part, k) THEN Grown(cs[x]) ELSE cs[x]]]

\* figma.root.children.find(p => p.name === pageName): its index, or 0
FindPage(pgs, pageName) ==
    IF \E j \in 1..Len(pgs) : pgs[j].name = pageName
    THEN CHOOSE j \in 1..Len(pgs) :
            pgs[j].name = pageName /\ \A x \in 1..(j - 1) : pgs[x].name # pageName
    ELSE 0

\* diagramPage.children.find(n => n.name === 'Flow Diagram'): its index, or 0
FindFrame(children) ==
    IF \E x \in 1..Len(children) : children[x].name = "Flow Diagram"
    THEN CHOOSE x \in 1..Len(children) :
            children[x].name = "Flow Diagram"
            /\ \A y \in 1..(x - 1) : children[y].name # "Flow Diagram"
    ELSE 0

----------------------------------------------------------------------------
(* generateDiagram, as the segments that run between two awaits. A segment  *)
(* takes the world w = [pages, currentPage, diagramPage, calls] and the     *)
(* generation g = [gen, layout, pc, i, thumbnails], and returns             *)
(* [w, g, out]: out is "await" (suspended at g.pc), "done" or "throw".      *)

TRIGGER_LABELS(trigger) ==
    CASE trigger = "ON_CLICK" -> "Tap"
      [] trigger = "ON_HOVER" -> "Hover"
      [] trigger = "ON_DRAG" -> "Drag"
      [] trigger = "ON_PRESS" -> "Press"
      [] trigger = "AFTER_TIMEOUT" -> "Timer"
      [] trigger = "MOUSE_ENTER" -> "Hover In"
      [] trigger = "MOUSE_LEAVE" -> "Hover Out"
      [] trigger = "MOUSE_DOWN" -> "Press"
      [] trigger = "MOUSE_UP" -> "Release"
      [] OTHER -> trigger

\* { r: 0.4, g: 0.4, b: 0.45 }, in hundredths
NeutralColor == [r |-> 40, g |-> 40, b |-> 45]

Called(w, call) == [w EXCEPT !.calls = Append(@, call)]

\* lines 210-247: the card loop from node k up to its next await
CardLoop(w, g, k) ==
    IF k > Len(g.layout.nodes)
    THEN [w |-> Called(w, [api |-> "loadFontAsync", on |-> "Regular"]),
          g |-> [g EXCEPT !.pc = "arrowFont", !.i = k], out |-> "await"]
    ELSE LET node == g.layout.nodes[k]
             card == Card(g.gen, k, g.layout, node.id \in g.thumbnails)
             label == Label(g.gen, k, node)
         IN [w |-> Called([w EXCEPT !.pages =
                              AddChild(AddChild(@, w.currentPage, card),
                                       w.currentPage, label)],
                          [api |-> "loadFontAsync", on |-> "Medium"]),
             g |-> [g EXCEPT !.pc = "cardFont", !.i = k], out |-> "await"]

\* lines 176-205: switch to the diagram page and create the container
ComposeStart(w, g) ==
    LET w1 == [w EXCEPT !.currentPage = w.diagramPage]
        w2 == [w1 EXCEPT !.pages = AddChild(@, w1.currentPage, Container(g.gen, g.layout))]
    IN CardLoop(w2, g, 1)

\* lines 161-174: the thumbnail loop from node i up to its next await
ThumbLoop(w, g, i) ==
    LET exporting == {j \in i..Len(g.layout.nodes) : getNodeById(g.layout.nodes[j].id) # Null}
    IN IF exporting # {}
       THEN LET j == CHOOSE x \in exporting : \A y \in exporting : x <= y
            IN [w |-> Called(w, [api |-> "exportAsync", on |-> g.layout.nodes[j].id]),
                g |-> [g EXCEPT !.pc = "thumb", !.i = j], out |-> "await"]
       ELSE ComposeStart(w, g)

CreateOrReusePageUnstored(w) ==
    LET pageName == w.pages[w.currentPage].name \o DiagramSuffix
        existingPage == FindPage(w.pages, pageName)
    IN IF existingPage # 0
       THEN [w EXCEPT !.pages[existingPage].children = <<>>]
       ELSE [w EXCEPT !.pages = Append(@, [name |-> pageName, children |-> <<>>])]

\* lines 139-153: create or reuse (and clear) the diagram page
CreateOrReusePage(w) ==
    LET pageName == w.pages[w.currentPage].name \o DiagramSuffix
        existingPage == FindPage(w.pages, pageName)
    IN IF existingPage # 0
       THEN [w EXCEPT !.pages[existingPage].children = <<>>,
                      !.diagramPage = existingPage]
       ELSE [w EXCEPT !.pages = Append(@, [name |-> pageName, children |-> <<>>]),
                      !.diagramPage = Len(w.pages) + 1]

\* generateDiagram(layout) from its entry to its first await
GenerateEntry(w, layout, p) ==
    LET w1 == CreateOrReusePage(w)
        g == [gen |-> p, layout |-> layout, pc |-> "entry", i |-> 0, thumbnails |-> {}]
    IN IF ~layout.defined
       THEN [w |-> w1, g |-> g, out |-> "throw"]   \* layout.nodes of undefined
       ELSE ThumbLoop(w1, g, 1)

AfterThumbnailAborting(w, g, ok) ==
    IF ok
    THEN ThumbLoop(w, [g EXCEPT !.thumbnails = @ \cup {g.layout.nodes[g.i].id}], g.i + 1)
    ELSE [w |-> w, g |-> g, out |-> "throw"]

\* the thumbnail export of node g.i has settled: resolved (ok) or rejected
AfterThumbnail(w, g, ok) ==
    LET id == g.layout.nodes[g.i].id
        g1 == IF ok THEN [g EXCEPT !.thumbnails = @ \cup {id}] ELSE g
    IN ThumbLoop(w, g1, g.i + 1)

\* lines 248-259 after the font of card g.i is loaded, then the loop goes on.
\* Writing to a removed node, or appending to one, throws.
AfterCardFont(w, g) ==
    LET k == g.i
        labelPage == PageOf(w.pages, g.gen, "label", k)
        cardPage == PageOf(w.pages, g.gen, "card", k)
    IN IF labelPage = 0 \/ cardPage = 0
       THEN [w |-> w, g |-> g, out |-> "throw"]
       ELSE LET label == ChildAt(w.pages, labelPage, g.gen, "label", k)
                pages1 == AppendInto(DropChild(w.pages, labelPage, g.gen, "label", k),
                                     cardPage, g.gen, "card", k,
                                     [part |-> "label", name |-> label.name])
                containerPage == PageOf(pages1, g.gen, "container", 0)
            IN IF containerPage = 0
               THEN [w |-> [w EXCEPT !.pages = pages1], g |-> g, out |-> "throw"]
               ELSE LET card == ChildAt(pages1, cardPage, g.gen, "card", k)
                        pages2 == AppendInto(DropChild(pages1, cardPage, g.gen, "card", k),
                                             containerPage, g.gen, "container", 0,
                                             [part |-> "card", id |-> g.layout.nodes[k].id,
                                              name |-> card.name, frame |-> card.frame,
                                              children |-> card.children])
                    IN CardLoop([w EXCEPT !.pages = pages2], g, k + 1)

\* cardMap.get(id) is set: the layout has a node of that id
HasCard(layout, id) == \E k \in 1..Len(layout.nodes) : layout.nodes[k].id = id

\* cardMap.get(id): the frame of the card set last for that id
CardOfId(layout, id) ==
    LET K == {k \in 1..Len(layout.nodes) : layout.nodes[k].id = id}
    IN CardFrame(layout, layout.nodes[MaxOf(K)])

\* a coordinate computed in floating point, held by whether it is a number: 0 / 0
\* is NaN, and every sum or product with NaN is NaN
NaN == "NaN"
Finite == "finite"

\* createArrow(x1, y1, x2, y2, color): ux = dx / len and uy = dy / len, with
\* len = Math.sqrt(dx * dx + dy * dy); the position and the path data are sums of
\* the anchors and multiples of ux and uy
createArrow(x1, y1, x2, y2, color) ==
    LET dx == x2 - x1
        dy == y2 - y1
        lenSquared == dx * dx + dy * dy
        ux == IF lenSquared = 0 THEN NaN ELSE Finite
        uy == IF lenSquared = 0 THEN NaN ELSE Finite
    IN [part |-> "arrow", name |-> "Arrow", color |-> color,
        from |-> <<x1, y1>>, to |-> <<x2, y2>>,
        x |-> ux, y |-> uy, path |-> IF NaN \in {ux, uy} THEN NaN ELSE Finite]

\* lines 275-281: the arrow from the right-center of the source card to the
\* left-center of the target card
ArrowBetween(sourceCard, targetCard, color) ==
    createArrow(sourceCard.x + sourceCard.width, sourceCard.y + sourceCard.height \div 2,
                targetCard.x, targetCard.y + targetCard.height \div 2, color)

EdgeItemsAlwaysLabelled(edge, tier, colors, cards) ==
    LET key == ColorKey(edge)
        color == IF Truthy(tier.flowHighlighting)
                 THEN (IF key \in DOMAIN colors THEN colors[key] ELSE FLOW_COLORS[1])
                 ELSE NeutralColor
    IN <<ArrowBetween(cards.source, cards.target, color),
         [part |-> "badge", name |-> "Badge: " \o TRIGGER_LABELS(edge.trigger),
          color |-> color]>>

EdgeItemsAlwaysHighlighted(edge, tier, colors, cards) ==
    LET key == ColorKey(edge)
        color == IF key \in DOMAIN colors THEN colors[key] ELSE FLOW_COLORS[1]
    IN <<ArrowBetween(cards.source, cards.target, color)>> \o
       (IF Truthy(tier.interactionLabels)
        THEN <<[part |-> "badge", name |-> "Badge: " \o TRIGGER_LABELS(edge.trigger),
                color |-> color]>>
        ELSE <<>>)

\* the arrow, and the badge if the tier allows it, of one edge (lines 270-296)
EdgeItems(edge, tier, colors, cards) ==
    LET key == ColorKey(edge)
        color == IF Truthy(tier.flowHighlighting)
                 THEN (IF key \in DOMAIN colors THEN colors[key] ELSE FLOW_COLORS[1])
                 ELSE NeutralColor
    IN <<ArrowBetween(cards.source, cards.target, color)>> \o
       (IF Truthy(tier.interactionLabels)
        THEN <<[part |-> "badge", name |-> "Badge: " \o TRIGGER_LABELS(edge.trigger),
                color |-> color]>>
        ELSE <<>>)

RECURSIVE AllEdgeItems(_, _, _, _)
AllEdgeItems(es, layout, tier, colors) ==
    IF es = <<>> THEN <<>>
    ELSE (IF HasCard(layout, Head(es).sourceId) /\ HasCard(layout, Head(es).targetId)
          THEN EdgeItems(Head(es), tier, colors,
                         [source |-> CardOfId(layout, Head(es).sourceId),
                          target |-> CardOfId(layout, Head(es).targetId)])
          ELSE <<>>)
         \o AllEdgeItems(Tail(es), layout, tier, colors)

RECURSIVE AppendAll(_, _, _, _)
AppendAll(pgs, j, p, items) ==
    IF items = <<>> THEN pgs
    ELSE AppendAll(AppendInto(pgs, j, p, "container", 0, Head(items)), j, p, Tail(items))

\* lines 265-303 after the badge font is loaded. Reading a card of a removed
\* container throws.
\* Setting the position or the path of a vector to NaN is left to the host: it
\* takes the value (nanAccepted) or throws.
AfterArrowFont(w, g, tier, nanAccepted) ==
    LET items == AllEdgeItems(g.layout.edges, g.layout, tier, assignFlowColors(g.layout.edges))
        containerPage == PageOf(w.pages, g.gen, "container", 0)
        refused == {k \in 1..Len(items) : items[k].part = "arrow" /\ items[k].x = NaN}
    IN IF items # <<>> /\ containerPage = 0
       THEN [w |-> w, g |-> g, out |-> "throw"]
       ELSE IF refused # {} /\ ~nanAccepted
       THEN [w |-> [w EXCEPT !.pages =
                       AppendAll(@, containerPage, g.gen, SubSeq(items, 1, MinOf(refused) - 1))],
             g |-> [g EXCEPT !.pc = "arrow"], out |-> "throw"]
       ELSE [w |-> [w EXCEPT !.pages = IF items = <<>> THEN @
                                        ELSE AppendAll(@, containerPage, g.gen, items),
                             !.diagramPage = w.currentPage],
             g |-> g, out |-> "done"]

----------------------------------------------------------------------------
(* Inputs of the scanner *)

NoReaction == [hasAction |-> FALSE, destinationId |-> "", type |-> "", trigger |-> ""]

\* The reactions a node may carry: every destination with the declared kinds
\* ON_CLICK / NAVIGATE, and the destination f2 with every combination of a missing
\* or declared trigger type and action type.
Reactions ==
    {NoReaction}
    \cup [hasAction : {TRUE}, destinationId : TreeIds \cup {"", "gone"},
          type : {"NAVIGATE"}, trigger : {"ON_CLICK"}]
    \cup [hasAction : {TRUE}, destinationId : {"f2"},
          type : {"", "OVERLAY"}, trigger : {"", "ON_HOVER"}]

MarkerIds == {"f1", "f2", "zz"}

RECURSIVE SeqsUpTo(_, _)
SeqsUpTo(S, n) ==
    IF n = 0 THEN {<<>>}
    ELSE LET shorter == SeqsUpTo(S, n - 1)
         IN shorter \cup {Append(s, x) : s \in {t \in shorter : Len(t) = n - 1}, x \in S}

\* page.flowStartingPoints: undefined, or a list of markers
MarkerLists ==
    {[defined |-> FALSE, items |-> <<>>]}
    \cup {[defined |-> TRUE, items |-> s] : s \in SeqsUpTo(MarkerIds, MaxMarkers)}

----------------------------------------------------------------------------
(* Inputs of the plugin *)

\* the tier names a set-tier message may carry
TierNames == {"free", "pro", "enterprise", "constructor", "toString", "__proto__"}

\* const CARD_W = 324; CARD_H = 252 (computeLayout)
CARD_W == 324
CARD_H == 252

\* a LayoutNode as computeLayout builds it, its top-left corner at (x, y)
LayoutNodeAt(i, x, y) ==
    [id |-> ChainId(i), name |-> NameOf(ChainId(i)),
     x |-> x, y |-> y, width |-> CARD_W, height |-> CARD_H]

\* the i-th node of a left-to-right row: margin 20, ranks 120 apart
LayoutNode(i) == LayoutNodeAt(i, 20 + (i - 1) * (CARD_W + 120), 20)

LayoutEdge(i, j) ==
    [sourceId |-> ChainId(i), targetId |-> ChainId(j),
     trigger |-> "ON_CLICK", action |-> "NAVIGATE"]

\* msg.layout: missing, one screen, or two screens with an edge each way and an
\* edge to a screen the layout has no node for
NoLayout == [defined |-> FALSE, nodes |-> <<>>, edges |-> <<>>]

OneScreen == [defined |-> TRUE, nodes |-> <<LayoutNode(1)>>, edges |-> <<>>]

TwoScreens ==
    [defined |-> TRUE, nodes |-> <<LayoutNode(1), LayoutNode(2)>>,
     edges |-> <<LayoutEdge(1, 2), LayoutEdge(2, 1), LayoutEdge(1, 3)>>]

Layouts == {NoLayout, OneScreen, TwoScreens}

----------------------------------------------------------------------------
(* The state before anything has run *)

PluginIdle ==
    /\ currentTier = TiersFree
    /\ diagramPage = 0
    /\ pages = <<[name |-> "Home", children |-> <<>>]>>
    /\ currentPage = 1
    /\ gens = {}
    /\ nGen = 0
    /\ exports = <<>>
    /\ msg = [type |-> "none"]
    /\ scannedPage = [shape |-> "chain", frames |-> 0]
    /\ posted = <<>>
    /\ calls = <<>>
    /\ uncaught = FALSE

----------------------------------------------------------------------------
(* SpecScan: one call of scanPrototypeConnections on the page TreeOrder *)

ColorsIdle ==
    /\ layoutEdges = <<>>
    /\ flowColors = assignFlowColors(<<>>)

ScanIdle ==
    /\ scanPc = "walk"
    /\ walkPos = 1
    /\ nRecords = 0
    /\ reaction = NoReaction
    /\ nodeMap = <<>>
    /\ edges = <<>>
    /\ flowStartingPoints = [defined |-> FALSE, items |-> <<>>]
    /\ startingPointIds = <<>>

InitScan ==
    /\ ScanIdle
    /\ ColorsIdle
    /\ PluginIdle

\* one iteration of `for (const reaction of reactions)` at the current node
WalkNodeReaction ==
    /\ scanPc = "walk"
    /\ walkPos <= Len(TreeOrder)
    /\ nRecords < MaxRecords
    /\ \E r \in Reactions :
         LET acc == WalkReaction([nodeMap |-> nodeMap, edges |-> edges],
                                 TreeOrder[walkPos], r)
         IN /\ reaction' = r
            /\ nodeMap' = acc.nodeMap
            /\ edges' = acc.edges
    /\ nRecords' = nRecords + 1
    /\ UNCHANGED <<scanPc, walkPos, flowStartingPoints, startingPointIds>>
    /\ UNCHANGED <<colorVars, pluginVars>>

\* the reactions of the current node are exhausted: on to its children, or to the
\* next node in pre-order
WalkNodeNext ==
    /\ scanPc = "walk"
    /\ walkPos <= Len(TreeOrder)
    /\ walkPos' = walkPos + 1
    /\ reaction' = NoReaction
    /\ UNCHANGED <<scanPc, nRecords, nodeMap, edges,
                   flowStartingPoints, startingPointIds>>
    /\ UNCHANGED <<colorVars, pluginVars>>

\* the walk is over: detect the starting points and return the graph
ScanReturn ==
    /\ scanPc = "walk"
    /\ walkPos = Len(TreeOrder) + 1
    /\ \E fsp \in MarkerLists :
         /\ flowStartingPoints' = fsp
         /\ startingPointIds' = StartingPoints(fsp, nodeMap, edges)
    /\ scanPc' = "done"
    /\ UNCHANGED <<walkPos, nRecords, reaction, nodeMap, edges>>
    /\ UNCHANGED <<colorVars, pluginVars>>

NextScan == WalkNodeReaction \/ WalkNodeNext \/ ScanReturn

SpecScan == InitScan /\ [][NextScan]_vars

----------------------------------------------------------------------------
(* SpecLayout: the scanner followed by computeLayout (ui.ts) on its graph. Only *)
(* the edges of the LayoutResult are held; the points of an edge are what the  *)
(* layout library routed for its pair of nodes, a list or nothing.            *)

LayoutEdgesDeduplicated(es, routed) ==
    LET First(i) == \A j \in 1..(i - 1) : ColorKey(es[j]) # ColorKey(es[i])
        kept == SelectSeq([i \in 1..Len(es) |-> [e |-> es[i], first |-> First(i)]],
                          LAMBDA x : x.first)
    IN [i \in 1..Len(kept) |->
          [sourceId |-> kept[i].e.sourceId, targetId |-> kept[i].e.targetId,
           trigger |-> kept[i].e.trigger, action |-> kept[i].e.action,
           points |-> IF ColorKey(kept[i].e) \in routed THEN <<"p">> ELSE <<>>]]

\* graph.edges.map(e => ({sourceId, targetId, trigger, action, points}))
LayoutEdgesOf(es, routed) ==
    [i \in 1..Len(es) |->
       [sourceId |-> es[i].sourceId, targetId |-> es[i].targetId,
        trigger |-> es[i].trigger, action |-> es[i].action,
        points |-> IF ColorKey(es[i]) \in routed THEN <<"p">> ELSE <<>>]]

\* computeLayout(graph, direction) on the graph the scan returned
ComputeLayout ==
    /\ scanPc = "done"
    /\ scanPc' = "laid"
    /\ \E routed \in SUBSET {ColorKey(edges[i]) : i \in 1..Len(edges)} :
         layoutEdges' = LayoutEdgesOf(edges, routed)
    /\ UNCHANGED <<walkPos, nRecords, reaction, nodeMap, edges,
                   flowStartingPoints, startingPointIds, flowColors>>
    /\ UNCHANGED pluginVars

NextLayout == NextScan \/ ComputeLayout

SpecLayout == InitScan /\ [][NextLayout]_vars

----------------------------------------------------------------------------
(* SpecColors: assignFlowColors on every list of at most MaxColorEdges edges *)

InitColors ==
    /\ ScanIdle
    /\ ColorsIdle
    /\ PluginIdle

\* the layout holds one more edge; the map is the one assignFlowColors returns for it
AssignFlowColors ==
    /\ Len(layoutEdges) < MaxColorEdges
    /\ \E e \in ColorEdges :
         /\ layoutEdges' = Append(layoutEdges, e)
         /\ flowColors' = assignFlowColors(Append(layoutEdges, e))
    /\ UNCHANGED <<scanVars, pluginVars>>

NextColors == AssignFlowColors

SpecColors == InitColors /\ [][NextColors]_vars

----------------------------------------------------------------------------
(* Spec: the plugin (code.ts) handling messages of the UI, with the awaits  *)
(* of generateDiagram and exportDiagram settling in any order               *)

Init ==
    /\ ScanIdle
    /\ ColorsIdle
    /\ PluginIdle

World == [pages |-> pages, currentPage |-> currentPage,
          diagramPage |-> diagramPage, calls |-> <<>>]

\* the message of the Error a segment of generateDiagram throws: the TypeError of
\* reading layout.nodes of undefined, the host's error on a removed node, or the
\* host's error on a NaN coordinate
ThrownBy(g) ==
    IF g.pc = "arrow" THEN "Expected a finite number"
    ELSE IF g.layout.defined THEN "The node does not exist"
    ELSE "Cannot read properties of undefined (reading 'nodes')"

CatchNothing(message) == [posted |-> <<>>, uncaught |-> TRUE]

\* catch (e) { postMessage({ type: 'error', message: e.message || 'Unknown error' }) }
Catch(message) ==
    [posted |-> <<ErrorMsg(<<IF message = "" THEN "Unknown error" ELSE message>>)>>,
     uncaught |-> FALSE]

\* the outcome r = [w, g, out] of a segment of the generation `old` takes effect;
\* a throw reaches the catch of the handler that awaits generateDiagram
Settle(old, r) ==
    /\ pages' = r.w.pages
    /\ currentPage' = r.w.currentPage
    /\ diagramPage' = r.w.diagramPage
    /\ calls' = r.w.calls
    /\ gens' = (gens \ old) \cup (IF r.out = "await" THEN {r.g} ELSE {})
    /\ posted' = CASE r.out = "done" -> <<[type |-> "generation-complete"]>>
                   [] r.out = "throw" -> Catch(ThrownBy(r.g)).posted
                   [] OTHER -> <<>>
    /\ uncaught' = (uncaught \/ (r.out = "throw" /\ Catch(ThrownBy(r.g)).uncaught))

\* case 'scan', the current page holding n linked frames, n one of `sizes`
ScanPage(sizes) ==
    /\ \E n \in sizes, shape \in PageShapes :
         /\ scannedPage' = [shape |-> shape, frames |-> n]
         /\ posted' = ScanPosts(PageOfShape(shape, n), currentTier)
    /\ msg' = [type |-> "scan"]
    /\ calls' = <<>>
    /\ UNCHANGED <<currentTier, diagramPage, pages, currentPage, gens, nGen, exports>>
    /\ UNCHANGED <<scanVars, colorVars, uncaught>>

Scan == ScanPage(0..MaxFound)

\* case 'set-tier', the tier name one of `names`
SetTierTo(names) ==
    /\ \E name \in names :
         /\ msg' = [type |-> "set-tier", tier |-> name]
         /\ currentTier' = SetTier(name)
    /\ posted' = <<>>
    /\ calls' = <<>>
    /\ UNCHANGED <<diagramPage, pages, currentPage, gens, nGen, exports, scannedPage>>
    /\ UNCHANGED <<scanVars, colorVars, uncaught>>

SetTierMsg == SetTierTo(TierNames)

\* What a run records of a generation beside the state of the code: the tier
\* that was active when its message was received, and the outcome of each of its
\* thumbnail exports, in the order they settled
Received(r, tier) ==
    [r EXCEPT !.g = [gen |-> r.g.gen, layout |-> r.g.layout, pc |-> r.g.pc, i |-> r.g.i,
                     thumbnails |-> r.g.thumbnails, tier |-> tier, outcomes |-> <<>>]]

Outcome(g, ok) ==
    [g EXCEPT !.outcomes = Append(@, [id |-> g.layout.nodes[g.i].id, ok |-> ok])]

\* case 'generate': generateDiagram(msg.layout) up to its first await, the layout
\* one of `layouts`
GenerateLayout(layouts) ==
    /\ nGen < MaxGenerations
    /\ nGen' = nGen + 1
    /\ \E layout \in layouts :
         /\ msg' = [type |-> "generate", layout |-> layout.defined]
         /\ Settle({}, Received(GenerateEntry(World, layout, nGen + 1), currentTier))
    /\ UNCHANGED <<currentTier, exports, scannedPage>>
    /\ UNCHANGED <<scanVars, colorVars>>

Generate == GenerateLayout(Layouts)

\* the exportAsync of a thumbnail settles: it resolves (TRUE) or rejects (FALSE),
\* the outcome one of `oks`
ThumbnailSettledAs(oks) ==
    /\ \E g \in gens, ok \in oks :
         /\ g.pc = "thumb"
         /\ msg' = [type |-> "settled", api |-> "exportAsync", gen |-> Outcome(g, ok)]
         /\ Settle({g}, AfterThumbnail(World, Outcome(g, ok), ok))
    /\ UNCHANGED <<currentTier, nGen, exports, scannedPage>>
    /\ UNCHANGED <<scanVars, colorVars>>

ThumbnailSettled == ThumbnailSettledAs(BOOLEAN)

\* the loadFontAsync of a card label resolves
CardFontLoaded ==
    /\ \E g \in gens :
         /\ g.pc = "cardFont"
         /\ msg' = [type |-> "settled", api |-> "loadFontAsync", gen |-> g]
         /\ Settle({g}, AfterCardFont(World, g))
    /\ UNCHANGED <<currentTier, nGen, exports, scannedPage>>
    /\ UNCHANGED <<scanVars, colorVars>>

\* the loadFontAsync of the badges resolves
ArrowFontLoaded ==
    /\ \E g \in gens :
         /\ g.pc = "arrowFont"
         /\ msg' = [type |-> "settled", api |-> "loadFontAsync", gen |-> g]
         /\ \E nanAccepted \in BOOLEAN :
              Settle({g}, AfterArrowFont(World, g, currentTier, nanAccepted))
    /\ UNCHANGED <<currentTier, nGen, exports, scannedPage>>
    /\ UNCHANGED <<scanVars, colorVars>>

\* case 'export': exportDiagram(msg.format) up to its await
Export ==
    /\ \E format \in {"png", "pdf"} :
         /\ msg' = [type |-> "export", format |-> format]
         /\ LET frame == IF diagramPage = 0 THEN 0
                         ELSE FindFrame(pages[diagramPage].children)
            IN IF diagramPage = 0
               THEN /\ posted' = <<ErrorMsg(<<"No diagram to export. Generate one first.">>)>>
                    /\ calls' = <<>>
                    /\ UNCHANGED exports
               ELSE IF frame = 0
               THEN /\ posted' = <<ErrorMsg(<<"Flow Diagram frame not found.">>)>>
                    /\ calls' = <<>>
                    /\ UNCHANGED exports
               ELSE IF PdfRefused(format, currentTier)
               THEN /\ posted' = <<ErrorMsg(<<"PDF export is a Pro feature.">>)>>
                    /\ calls' = <<>>
                    /\ UNCHANGED exports
               ELSE /\ Len(exports) < MaxExports
                    /\ posted' = <<>>
                    /\ calls' = <<[api |-> "exportAsync", on |-> "Flow Diagram"]>>
                    /\ exports' = Append(exports,
                                    [format |-> format, pdfExport |-> currentTier.pdfExport])
    /\ UNCHANGED <<currentTier, diagramPage, pages, currentPage, gens, nGen, scannedPage>>
    /\ UNCHANGED <<scanVars, colorVars, uncaught>>

\* how the exportAsync of the diagram may settle: resolved, or rejected with an
\* Error of some message
ExportOutcomes ==
    {[ok |-> TRUE, message |-> ""],
     [ok |-> FALSE, message |-> "host error"],
     [ok |-> FALSE, message |-> "out of memory"]}

AfterExportUnguarded(format, outcome) ==
    <<[type |-> "export-complete", format |-> format]>>

\* exportDiagram after its await (lines 425-437): what it posts
AfterExport(format, outcome) ==
    IF outcome.ok
    THEN <<[type |-> "export-complete", format |-> format]>>
    ELSE <<ErrorMsg(<<"Export failed: ", outcome.message>>)>>

\* the exportAsync of the diagram resolves or rejects
ExportSettled ==
    /\ \E k \in 1..Len(exports), outcome \in ExportOutcomes :
         /\ msg' = [type |-> "settled", api |-> "exportAsync", export |-> exports[k],
                    outcome |-> outcome]
         /\ exports' = [x \in 1..(Len(exports) - 1) |->
                          IF x < k THEN exports[x] ELSE exports[x + 1]]
         /\ posted' = AfterExport(exports[k].format, outcome)
    /\ calls' = <<>>
    /\ UNCHANGED <<currentTier, diagramPage, pages, currentPage, gens, nGen, scannedPage>>
    /\ UNCHANGED <<scanVars, colorVars, uncaught>>

\* a message of a type the switch has no case for: nothing is done
UnknownMsg ==
    /\ msg' = [type |-> "unknown"]
    /\ posted' = <<>>
    /\ calls' = <<>>
    /\ UNCHANGED <<currentTier, diagramPage, pages, currentPage, gens, nGen, exports,
                   scannedPage, uncaught>>
    /\ UNCHANGED <<scanVars, colorVars>>

\* the user opens another page of the document
UserSwitchesPage ==
    /\ \E j \in 1..Len(pages) :
         /\ j # currentPage
         /\ currentPage' = j
    /\ msg' = [type |-> "none"]
    /\ posted' = <<>>
    /\ calls' = <<>>
    /\ UNCHANGED <<currentTier, diagramPage, pages, gens, nGen, exports, scannedPage>>
    /\ UNCHANGED <<scanVars, colorVars, uncaught>>

Next ==
    \/ Scan
    \/ SetTierMsg
    \/ Generate
    \/ ThumbnailSettled
    \/ CardFontLoaded
    \/ ArrowFontLoaded
    \/ Export
    \/ ExportSettled
    \/ UnknownMsg
    \/ UserSwitchesPage

Spec == Init /\ [][Next]_vars

----------------------------------------------------------------------------
(* SpecTier: scan and set-tier messages in any order *)

NextTier ==
    \/ Scan
    \/ SetTierMsg

SpecTier == Init /\ [][NextTier]_vars

----------------------------------------------------------------------------
(* SpecGenerate: generate messages, which may overlap, and the user moving  *)
(* between pages; the tier stays the free one                               *)

NextGenerate ==
    \/ Generate
    \/ ThumbnailSettled
    \/ CardFontLoaded
    \/ ArrowFontLoaded
    \/ UserSwitchesPage

SpecGenerate == Init /\ [][NextGenerate]_vars

----------------------------------------------------------------------------
(* SpecExport: one generate message, with set-tier and export messages and *)
(* page switches at any time before, during and after the generation       *)

GenerateOnce ==
    /\ nGen = 0
    /\ Generate

NextExport ==
    \/ SetTierMsg
    \/ GenerateOnce
    \/ ThumbnailSettled
    \/ CardFontLoaded
    \/ ArrowFontLoaded
    \/ Export
    \/ ExportSettled
    \/ UserSwitchesPage

SpecExport == Init /\ [][NextExport]_vars

----------------------------------------------------------------------------
(* SpecHandler: every kind of message, the generate messages at most two,   *)
(* which may overlap, with no layout or with the layout of one screen       *)

GenerateTwice ==
    /\ nGen <= 1
    /\ GenerateLayout({NoLayout, OneScreen})

\* the user goes back to the page the diagrams are generated from
UserReturns ==
    /\ UserSwitchesPage
    /\ currentPage' = 1

NextHandler ==
    \/ ScanPage({2})
    \/ SetTierTo({"pro"})
    \/ GenerateTwice
    \/ ThumbnailSettled
    \/ CardFontLoaded
    \/ ArrowFontLoaded
    \/ Export
    \/ ExportSettled
    \/ UnknownMsg
    \/ UserReturns

SpecHandler == Init /\ [][NextHandler]_vars

----------------------------------------------------------------------------
(* SpecCompose: one generation, on layouts that differ in where the nodes are *)

\* two nodes side by side, the second starting where the card of the first ends
Touching ==
    [defined |-> TRUE,
     nodes |-> <<LayoutNodeAt(1, 0, 0), LayoutNodeAt(2, CARD_W, 0)>>,
     edges |-> <<LayoutEdge(1, 2)>>]

\* three nodes spread over both axes, some at negative coordinates
Scattered ==
    [defined |-> TRUE,
     nodes |-> <<LayoutNodeAt(1, 0 - 50, 30), LayoutNodeAt(2, 400, 0 - 10),
                 LayoutNodeAt(3, 100, 500)>>,
     edges |-> <<LayoutEdge(1, 2), LayoutEdge(2, 3)>>]

ComposeLayouts == {OneScreen, TwoScreens, Touching, Scattered}

ComposeOnce ==
    /\ nGen = 0
    /\ GenerateLayout(ComposeLayouts)

NextCompose ==
    \/ ComposeOnce
    \/ SetTierTo({"pro"})
    \/ ThumbnailSettled
    \/ CardFontLoaded
    \/ ArrowFontLoaded

SpecCompose == Init /\ [][NextCompose]_vars

----------------------------------------------------------------------------
(* SpecLimit: a scan of a page of eleven screens, set-tier, and one generate   *)
(* message carrying the layout of those screens                               *)

\* the layout computeLayout returns for a graph of n screens without drawable edges
RowOfScreens(n) ==
    [defined |-> TRUE, nodes |-> [i \in 1..n |-> LayoutNode(i)], edges |-> <<>>]

GenerateScanned ==
    /\ nGen = 0
    /\ GenerateLayout({RowOfScreens(FreeMaxScreens + 1)})

NextLimit ==
    \/ ScanPage({FreeMaxScreens + 1})
    \/ SetTierTo({"free", "pro"})
    \/ GenerateScanned
    \/ ThumbnailSettledAs({TRUE})
    \/ CardFontLoaded
    \/ ArrowFontLoaded

SpecLimit == Init /\ [][NextLimit]_vars

----------------------------------------------------------------------------
(* Properties of the extracted graph *)

NodeIds == {nodeMap[i].id : i \in 1..Len(nodeMap)}

NodeIdSeq == [i \in 1..Len(nodeMap) |-> nodeMap[i].id]

InDegree(id) == Cardinality({i \in 1..Len(edges) : edges[i].targetId = id})

\* the reaction just handled at the current node has an acting element and a
\* destination that resolve to the same top-level container
SelfReferencing ==
    /\ scanPc = "walk" /\ walkPos <= Len(TreeOrder)
    /\ reaction.hasAction /\ reaction.destinationId # ""
    /\ findTopFrame(TreeOrder[walkPos]) # Null
    /\ getNodeById(reaction.destinationId) # Null
    /\ findTopFrame(getNodeById(reaction.destinationId))
         = findTopFrame(TreeOrder[walkPos])

\* C1: no edge of the graph has sourceId equal to targetId, at any point of the
\* walk and in the graph returned.
C1_NoSelfLoops ==
    \A i \in 1..Len(edges) : edges[i].sourceId # edges[i].targetId

C1_Witness ==
    /\ SelfReferencing
    /\ Len(edges) >= 1

\* C2: the nodes of the graph hold no two entries with the same id, however many
\* reactions mention the same container.
C2_NodeUniqueness ==
    \A i, j \in 1..Len(nodeMap) : nodeMap[i].id = nodeMap[j].id => i = j

C2_Witness ==
    /\ scanPc = "done"
    /\ \E id \in NodeIds :
         Cardinality({i \in 1..Len(edges) :
                        edges[i].sourceId = id \/ edges[i].targetId = id}) >= 2

\* C3: the sourceId and the targetId of every edge are ids of nodes of the same graph.
C3_EdgeEndpointsAreNodes ==
    \A i \in 1..Len(edges) :
        edges[i].sourceId \in NodeIds /\ edges[i].targetId \in NodeIds

C3_Witness ==
    /\ scanPc = "done"
    /\ Len(edges) >= 2
    /\ Len(nodeMap) = 3

\* no declared marker references an extracted node (markers absent, empty, or all
\* referencing ids outside the node set)
NoMarkerResolves ==
    \/ ~flowStartingPoints.defined
    \/ \A i \in 1..Len(flowStartingPoints.items) :
          flowStartingPoints.items[i] \notin NodeIds

\* C4: when no explicit marker references an extracted node, startingPointIds is
\* exactly the nodes with zero incoming edges, in node-discovery order, and is empty
\* when every node has an incoming edge.
C4_StartingPointFallback ==
    (scanPc = "done" /\ NoMarkerResolves) =>
        /\ LET ZeroIn(id) == InDegree(id) = 0
           IN startingPointIds = SelectSeq(NodeIdSeq, ZeroIn)
        /\ (\A id \in NodeIds : InDegree(id) > 0) => startingPointIds = <<>>

\* the 3-cycle f1 -> f2 -> f3 -> f1 scanned with no marker
C4_Witness ==
    /\ scanPc = "done"
    /\ NoMarkerResolves
    /\ Len(nodeMap) = 3 /\ Len(edges) = 3
    /\ \A id \in NodeIds : InDegree(id) = 1
    /\ startingPointIds = <<>>

\* C5: when a declared marker references an extracted node, startingPointIds is
\* exactly the declared markers whose nodeId is in the node set, in declaration
\* order, and the in-degree-zero inference is not applied.
C5_ExplicitStartingPoints ==
    (scanPc = "done" /\ ~NoMarkerResolves) =>
        /\ LET InGraph(id) == id \in NodeIds
           IN startingPointIds = SelectSeq(flowStartingPoints.items, InGraph)
        /\ \A id \in NodeIds :
             (\A i \in 1..Len(flowStartingPoints.items) :
                 flowStartingPoints.items[i] # id)
             => \A k \in 1..Len(startingPointIds) : startingPointIds[k] # id

\* a node with no incoming edge that is not marked, beside a marked one and a
\* marker outside the graph
C5_Witness ==
    /\ scanPc = "done"
    /\ ~NoMarkerResolves
    /\ \E i \in 1..Len(flowStartingPoints.items) :
         flowStartingPoints.items[i] \notin NodeIds
    /\ \E id \in NodeIds :
         /\ InDegree(id) = 0
         /\ \A k \in 1..Len(startingPointIds) : startingPointIds[k] # id

----------------------------------------------------------------------------
(* Properties of assignFlowColors *)

\* the position of a source id among the distinct source ids of the layout, in
\* order of first appearance, counted from 0
SourcePosition(src) ==
    LET first == CHOOSE i \in 1..Len(layoutEdges) :
                    /\ layoutEdges[i].sourceId = src
                    /\ \A j \in 1..(i - 1) : layoutEdges[j].sourceId # src
    IN Cardinality({layoutEdges[j].sourceId : j \in 1..(first - 1)})

\* C10: the color looked up for an edge (sourceId, targetId) of the list is
\* palette[i mod 5], i the position of its sourceId among the distinct source ids in
\* order of first appearance.
C10_ColorBySourcePosition ==
    \A k \in 1..Len(layoutEdges) :
        LET key == layoutEdges[k].sourceId \o "-" \o layoutEdges[k].targetId
        IN /\ key \in DOMAIN flowColors
           /\ flowColors[key] =
                FLOW_COLORS[(SourcePosition(layoutEdges[k].sourceId) % 5) + 1]

----------------------------------------------------------------------------
(* Properties of the message handler *)

PostedOfType(type) == {i \in 1..Len(posted) : posted[i].type = type}

HasPart(m, text) == \E i \in 1..Len(m.message) : m.message[i] = text

\* the screens a scan of scannedPage has to find: every frame of a chain or a ring
\* of two or more, none of a single frame (it has no link, or one to itself)
ScreensLinked == IF scannedPage.frames >= 2 THEN scannedPage.frames ELSE 0

GraphPosted ==
    \E i \in PostedOfType("graph") : Len(posted[i].graph.nodes) = ScreensLinked

LimitErrorPosted(limit, found) ==
    \E i \in PostedOfType("error") :
        HasPart(posted[i], ToString(limit)) /\ HasPart(posted[i], ToString(found))

\* C6: on a scan, a non-empty graph with more nodes than the maxScreens of the active
\* tier is rejected with an error that carries the limit and the found count, and no
\* graph is posted; under the free tier 10 nodes are accepted and 11 rejected, under
\* the pro tier every count is accepted.
C6_ScanTierLimit ==
    msg.type = "scan" =>
        LET limit == currentTier.maxScreens
        IN /\ (ScreensLinked > 0 /\ limit.kind = "number" /\ ScreensLinked > limit.n) =>
                /\ LimitErrorPosted(limit.n, ScreensLinked)
                /\ PostedOfType("graph") = {}
           /\ (currentTier = TiersFree /\ ScreensLinked = 10) =>
                GraphPosted /\ PostedOfType("error") = {}
           /\ (currentTier = TiersFree /\ ScreensLinked = 11) =>
                LimitErrorPosted(10, 11) /\ PostedOfType("graph") = {}
           /\ (currentTier = TiersPro /\ ScreensLinked > 0) =>
                GraphPosted /\ PostedOfType("error") = {}

C6_Witness ==
    /\ msg.type = "scan"
    /\ currentTier = TiersFree
    /\ scannedPage.frames = 11
    /\ LimitErrorPosted(10, 11)
    /\ PostedOfType("graph") = {}

\* C8: after a set-tier message whose tier name is neither 'free' nor 'pro', the
\* active tier is the free configuration and no error is raised.
C8_UnknownTierIsFree ==
    (msg.type = "set-tier" /\ msg.tier \notin {"free", "pro"}) =>
        /\ currentTier.maxScreens = Num(10)
        /\ currentTier.flowHighlighting = False
        /\ currentTier.interactionLabels = False
        /\ currentTier.pdfExport = False
        /\ PostedOfType("error") = {}

----------------------------------------------------------------------------
(* Properties of exportDiagram *)

DiagramFrameExists ==
    /\ diagramPage # 0
    /\ FindFrame(pages[diagramPage].children) # 0

ExportCalls == {i \in 1..Len(calls) : calls[i].api = "exportAsync"}

\* C7: an export request with format 'pdf' handled while the pdfExport flag of the
\* active tier is false makes no exportAsync call, posts an error and never posts
\* 'export-complete' (no call of it is left suspended, and every pdf export that
\* completes read the flag as true); under the pro tier a pdf export of an existing
\* diagram makes the call.
C7_PdfExportGate ==
    /\ (msg.type = "export" /\ msg.format = "pdf" /\ currentTier.pdfExport # True) =>
          /\ ExportCalls = {}
          /\ PostedOfType("error") # {}
          /\ PostedOfType("export-complete") = {}
    /\ \A k \in 1..Len(exports) :
          exports[k].format = "pdf" => exports[k].pdfExport = True
    /\ \A i \in PostedOfType("export-complete") :
          /\ msg.type = "settled"
          /\ msg.api = "exportAsync"
          /\ msg.export.format = posted[i].format
          /\ posted[i].format = "pdf" => msg.export.pdfExport = True
    /\ (msg.type = "export" /\ msg.format = "pdf" /\ currentTier = TiersPro
         /\ DiagramFrameExists) =>
          /\ ExportCalls # {}
          /\ exports # <<>>
          /\ exports[Len(exports)].format = "pdf"

C7_Witness ==
    /\ msg.type = "export"
    /\ msg.format = "pdf"
    /\ currentTier = TiersFree
    /\ DiagramFrameExists
    /\ ExportCalls = {}
    /\ PostedOfType("error") # {}

----------------------------------------------------------------------------
(* Properties of generateDiagram *)

\* the 'Flow Diagram' containers among the children of page j
Containers(j) ==
    {x \in 1..Len(pages[j].children) : pages[j].children[x].name = "Flow Diagram"}

\* C9: the generate requests all start from the page "Home" or from the page the
\* previous generation has switched to; whenever a generation has completed and none
\* is suspended, the document holds at most one diagram page beside "Home" and that
\* page holds exactly one 'Flow Diagram' container.
C9_OneDiagramPerSource ==
    (gens = {} /\ PostedOfType("generation-complete") # {}) =>
        /\ Len(pages) <= 2
        /\ Cardinality(Containers(2)) = 1

----------------------------------------------------------------------------
(* Properties of a completed generation. In the state a generation completes *)
(* in, msg.gen is that generation as it was suspended on its last await.     *)

Completed == PostedOfType("generation-complete") # {}

\* the 'Flow Diagram' container the generation p created
ContainerOf(p) ==
    ChildAt(pages, PageOf(pages, p, "container", 0), p, "container", 0)

\* the children of that container of one kind, in the order they were appended
ItemsOf(p, part) ==
    LET OfPart(c) == c.part = part
    IN SelectSeq(ContainerOf(p).children, OfPart)

LayoutNodeIds(layout) == {layout.nodes[k].id : k \in 1..Len(layout.nodes)}

\* the edges of a layout whose source and target are both nodes of the layout
Drawable(layout) ==
    LET BothCards(e) == e.sourceId \in LayoutNodeIds(layout)
                        /\ e.targetId \in LayoutNodeIds(layout)
    IN SelectSeq(layout.edges, BothCards)

\* C11: in a completed generation, if flowHighlighting of the active tier is false
\* every arrow and every badge has the one neutral color; if it is true the k-th
\* arrow has the color assignFlowColors maps the k-th drawn edge to.
C11_ArrowColors ==
    Completed =>
        LET g == msg.gen
            arrows == ItemsOf(g.gen, "arrow")
            badges == ItemsOf(g.gen, "badge")
            drawn == Drawable(g.layout)
            colors == assignFlowColors(g.layout.edges)
        IN /\ currentTier.flowHighlighting = False =>
                /\ \A k \in 1..Len(arrows) : arrows[k].color = [r |-> 40, g |-> 40, b |-> 45]
                /\ \A k \in 1..Len(badges) : badges[k].color = [r |-> 40, g |-> 40, b |-> 45]
           /\ currentTier.flowHighlighting = True =>
                /\ Len(arrows) = Len(drawn)
                /\ \A k \in 1..Len(arrows) : arrows[k].color = colors[ColorKey(drawn[k])]

C11_Witness ==
    /\ Completed
    /\ currentTier = TiersPro
    /\ Len(ItemsOf(msg.gen.gen, "arrow")) = 2
    /\ ItemsOf(msg.gen.gen, "arrow")[1].color = FLOW_COLORS[1]
    /\ ItemsOf(msg.gen.gen, "arrow")[2].color = FLOW_COLORS[2]

\* C12: a completed generation has added one arrow per layout edge whose source and
\* target both have a card; it has added one badge per such edge if interactionLabels
\* of the active tier is true and no badge otherwise, so none under the free tier.
C12_ArrowsAndBadges ==
    Completed =>
        LET g == msg.gen
            arrows == ItemsOf(g.gen, "arrow")
            badges == ItemsOf(g.gen, "badge")
            drawn == Drawable(g.layout)
        IN /\ Len(arrows) = Len(drawn)
           /\ IF currentTier.interactionLabels = True
              THEN Len(badges) = Len(drawn)
              ELSE badges = <<>>
           /\ currentTier = TiersFree => badges = <<>>

C12_Witness ==
    /\ Completed
    /\ currentTier = TiersPro
    /\ Len(msg.gen.layout.edges) = 3
    /\ Len(ItemsOf(msg.gen.gen, "arrow")) = 2
    /\ Len(ItemsOf(msg.gen.gen, "badge")) = 2

\* the card has a thumbnail rectangle
HasThumbnail(card) ==
    \E x \in 1..Len(card.children) : card.children[x].part = "thumbnail"

\* the export of the node id has succeeded in the generation g
Exported(g, id) ==
    \E x \in 1..Len(g.outcomes) : g.outcomes[x].id = id /\ g.outcomes[x].ok

\* C15: a thumbnail export that fails posts no error and leaves the generation
\* running; when the last await of a generation settles it posts
\* 'generation-complete', and then its container holds one card per layout node, in
\* layout order, with a thumbnail on exactly the cards of the nodes whose export
\* succeeded.
C15_ThumbnailFailureTolerated ==
    (msg.type = "settled" /\ "gen" \in DOMAIN msg) =>
        LET g == msg.gen
        IN /\ PostedOfType("error") = {}
           /\ g.pc # "arrowFont" => \E h \in gens : h.gen = g.gen
           /\ g.pc = "arrowFont" => Completed
           /\ Completed =>
                LET cards == ItemsOf(g.gen, "card")
                IN /\ Len(cards) = Len(g.layout.nodes)
                   /\ Len(g.outcomes) = Len(g.layout.nodes)
                   /\ \A k \in 1..Len(cards) :
                         /\ cards[k].id = g.layout.nodes[k].id
                         /\ HasThumbnail(cards[k]) <=> Exported(g, cards[k].id)

C15_Witness ==
    /\ Completed
    /\ Len(msg.gen.outcomes) = 2
    /\ ~msg.gen.outcomes[1].ok
    /\ msg.gen.outcomes[2].ok
    /\ ~HasThumbnail(ItemsOf(msg.gen.gen, "card")[1])
    /\ HasThumbnail(ItemsOf(msg.gen.gen, "card")[2])

----------------------------------------------------------------------------
(* Properties of a settled export *)

ExportHasSettled == msg.type = "settled" /\ "export" \in DOMAIN msg

\* C16: when the exportAsync of an export request is rejected, an error that carries
\* the message of the rejection is posted and no 'export-complete'; 'export-complete'
\* is posted only in the step in which the exportAsync of a request resolves, with the
\* format of that request.
C16_ExportFailureReported ==
    /\ (ExportHasSettled /\ ~msg.outcome.ok) =>
          /\ \E i \in PostedOfType("error") : HasPart(posted[i], msg.outcome.message)
          /\ PostedOfType("export-complete") = {}
    /\ \A i \in PostedOfType("export-complete") :
          /\ ExportHasSettled
          /\ msg.outcome.ok
          /\ posted[i].format = msg.export.format

C16_Witness ==
    /\ ExportHasSettled
    /\ msg.outcome = [ok |-> FALSE, message |-> "out of memory"]
    /\ posted = <<[type |-> "error", message |-> <<"Export failed: ", "out of memory">>]>>

----------------------------------------------------------------------------
(* Properties of the handler's catch *)

\* the last step ran a segment of generateDiagram that threw: at its entry, for a
\* message without a layout, or after an await, the generation neither suspended
\* again nor completed
ThrewAtEntry == msg.type = "generate" /\ ~msg.layout

ThrewAfterAwait ==
    /\ msg.type = "settled"
    /\ "gen" \in DOMAIN msg
    /\ ~Completed
    /\ \A h \in gens : h.gen # msg.gen.gen

\* C17: no failure leaves the message handler uncaught: a step in which
\* generateDiagram throws, at its entry or after an await, posts an 'error' message
\* with a text and no 'generation-complete'; an unknown message posts nothing; and
\* after an error was posted further messages can be handled.
C17_FailuresCaught ==
    /\ ~uncaught
    /\ (ThrewAtEntry \/ ThrewAfterAwait) =>
          /\ Len(posted) = 1
          /\ posted[1].type = "error"
          /\ posted[1].message # <<>>
          /\ posted[1].message # <<"">>
    /\ msg.type = "unknown" => posted = <<>>
    /\ PostedOfType("error") # {} =>
          /\ ENABLED UnknownMsg
          /\ ENABLED SetTierMsg

C17_Witness ==
    /\ ThrewAfterAwait
    /\ posted = <<[type |-> "error", message |-> <<"The node does not exist">>]>>
    /\ ~uncaught

----------------------------------------------------------------------------
(* Properties of the scan of a single screen *)

\* the last step scanned a page holding one top-level frame and no reaction
SingleIsolatedScreen ==
    /\ msg.type = "scan"
    /\ scannedPage = [shape |-> "chain", frames |-> 1]

\* the graph scanPrototypeConnections returns for the scanned page
Extracted == scanPrototypeConnections(PageOfShape(scannedPage.shape, scannedPage.frames))

\* C18 as stated: a page holding a single isolated screen yields 1 node, 0 edges,
\* and that node is the only starting point.
C18_IsolatedScreenIsNode ==
    SingleIsolatedScreen =>
        /\ Len(Extracted.nodes) = 1
        /\ Len(Extracted.edges) = 0
        /\ Extracted.startingPointIds = <<Extracted.nodes[1].id>>

\* C18, amended: a page holding a single isolated screen yields no node, no edge
\* and no starting point, and the scan reports that no connections were found
\* instead of posting a graph.
C18_IsolatedScreenIsEmpty ==
    SingleIsolatedScreen =>
        /\ Extracted.nodes = <<>>
        /\ Extracted.edges = <<>>
        /\ Extracted.startingPointIds = <<>>
        /\ PostedOfType("graph") = {}
        /\ \E i \in PostedOfType("error") :
              HasPart(posted[i], "No prototype connections found on this page. Add some prototype links between frames first.")

C18_Witness ==
    /\ SingleIsolatedScreen
    /\ Len(posted) = 2
    /\ posted[2].type = "error"

----------------------------------------------------------------------------
(* Properties of a generation that overlaps other messages *)

\* C19: the flags applied to the arrows and badges of a completed generation are
\* those of the tier that was active when its generate message was received, also
\* when a set-tier message was handled while it was suspended: badges are drawn
\* exactly if that tier's interactionLabels is set, and the arrows have the palette
\* colors exactly if its flowHighlighting is set, the neutral color otherwise.
C19_TierAtReceipt ==
    Completed =>
        LET g == msg.gen
            arrows == ItemsOf(g.gen, "arrow")
            badges == ItemsOf(g.gen, "badge")
            drawn == Drawable(g.layout)
            colors == assignFlowColors(g.layout.edges)
        IN /\ Len(badges) = (IF Truthy(g.tier.interactionLabels) THEN Len(drawn) ELSE 0)
           /\ Len(arrows) = Len(drawn)
           /\ \A k \in 1..Len(arrows) :
                 arrows[k].color = (IF Truthy(g.tier.flowHighlighting)
                                    THEN colors[ColorKey(drawn[k])]
                                    ELSE [r |-> 40, g |-> 40, b |-> 45])

----------------------------------------------------------------------------
(* Properties of the stored nodes *)

\* the name and the size the page reports for a frame, the size rounded to the
\* nearest integer: f1, reported as 375.5 x 812.7, is 376 x 813
ReportedRounded(id) ==
    [id |-> id, name |-> "Screen " \o id,
     width |-> IF id = "f1" THEN 376 ELSE 375,
     height |-> IF id = "f1" THEN 813 ELSE 812]

\* the records read so far that mention the frame as their source or destination
Mentions(id) == {i \in 1..Len(edges) : edges[i].sourceId = id \/ edges[i].targetId = id}

\* C20: every stored node has its container's name and its reported width and height
\* rounded to the nearest integer, (375.5, 812.7) being stored as (376, 813), and no
\* step of the scan changes or removes a node already stored.
C20_RoundedOnceStored ==
    /\ [](\A i \in 1..Len(nodeMap) : nodeMap[i] = ReportedRounded(nodeMap[i].id))
    /\ [][/\ Len(nodeMap') >= Len(nodeMap)
          /\ \A i \in 1..Len(nodeMap) : nodeMap'[i] = nodeMap[i]]_vars

C20_Witness ==
    /\ \E i \in 1..Len(nodeMap) :
          /\ nodeMap[i].id = "f1"
          /\ nodeMap[i].width = 376
          /\ nodeMap[i].height = 813
    /\ Cardinality(Mentions("f1")) >= 2

----------------------------------------------------------------------------
(* Properties of one record of the walk *)

\* the top-level container of each element of the scanned page, "" where the
\* top-level ancestor is no FRAME, COMPONENT or COMPONENT_SET (the GROUP g4) or the
\* host does not hold the element
ContainerOfElement(id) ==
    CASE id \in {"f1", "b1"} -> "f1"
      [] id \in {"f2", "b2"} -> "f2"
      [] id = "f3" -> "f3"
      [] OTHER -> ""

\* the record r carried by the element `node` has an action with a destination, and
\* both containers resolve and differ
QualifyingRecord(node, r) ==
    /\ r.hasAction
    /\ r.destinationId # ""
    /\ ContainerOfElement(node) # ""
    /\ ContainerOfElement(r.destinationId) # ""
    /\ ContainerOfElement(node) # ContainerOfElement(r.destinationId)

\* the step reads one record (the record is reaction', the element TreeOrder[walkPos])
ReadsRecord == nRecords' = nRecords + 1

\* C21: the edge of a qualifying record has the record's trigger type, or ON_CLICK
\* when it is missing, and the action's type, or NAVIGATE when it is missing, each
\* default applying whether or not the other value is declared.
C21_IndependentDefaults ==
    [][(ReadsRecord /\ QualifyingRecord(TreeOrder[walkPos], reaction')) =>
         /\ Len(edges') = Len(edges) + 1
         /\ edges'[Len(edges')].trigger =
              (IF reaction'.trigger = "" THEN "ON_CLICK" ELSE reaction'.trigger)
         /\ edges'[Len(edges')].action =
              (IF reaction'.type = "" THEN "NAVIGATE" ELSE reaction'.type)]_vars

\* a record of b1 or f1 to f2 without trigger type and with the action type OVERLAY
\* has just been read
C21_Witness ==
    /\ walkPos \in {1, 2}
    /\ reaction = [hasAction |-> TRUE, destinationId |-> "f2", type |-> "OVERLAY",
                   trigger |-> ""]
    /\ Len(edges) >= 1
    /\ edges[Len(edges)].trigger = "ON_CLICK"
    /\ edges[Len(edges)].action = "OVERLAY"

\* C22: a record that does not qualify (no action, no destination id, an unresolved
\* destination, an element or a destination without a top-level container, or the
\* same container on both sides) leaves the node map and the edge list as they were.
C22_NoSideEffect ==
    [][(ReadsRecord /\ ~QualifyingRecord(TreeOrder[walkPos], reaction')) =>
         /\ nodeMap' = nodeMap
         /\ edges' = edges]_vars

\* a record of f1 or b1 whose destination the host cannot resolve has just been
\* read, and f1 is not registered
C22_Witness ==
    /\ walkPos \in {1, 2}
    /\ reaction.hasAction
    /\ reaction.destinationId = "gone"
    /\ nodeMap = <<>>
    /\ nRecords >= 1

----------------------------------------------------------------------------
(* Properties of the edge lists *)

\* the edge a qualifying record r of the element `node` stands for
EdgeOfRecord(node, r) ==
    [sourceId |-> ContainerOfElement(node),
     targetId |-> ContainerOfElement(r.destinationId),
     trigger |-> IF r.trigger = "" THEN "ON_CLICK" ELSE r.trigger,
     action |-> IF r.type = "" THEN "NAVIGATE" ELSE r.type]

\* C23: every qualifying record appends exactly its edge at the end of the edge
\* list, whether or not an edge of the same source and target is already there, and
\* no other step changes the list; computeLayout returns one LayoutEdge per edge of
\* the graph, in the same order, with the same sourceId, targetId, trigger, action.
C23_EdgesKept ==
    /\ [][IF ReadsRecord /\ QualifyingRecord(TreeOrder[walkPos], reaction')
          THEN edges' = Append(edges, EdgeOfRecord(TreeOrder[walkPos], reaction'))
          ELSE edges' = edges]_vars
    /\ [](scanPc = "laid" =>
            /\ Len(layoutEdges) = Len(edges)
            /\ \A i \in 1..Len(edges) :
                  /\ layoutEdges[i].sourceId = edges[i].sourceId
                  /\ layoutEdges[i].targetId = edges[i].targetId
                  /\ layoutEdges[i].trigger = edges[i].trigger
                  /\ layoutEdges[i].action = edges[i].action)

\* a layout was computed for a graph with two edges of the same source and target
C23_Witness ==
    /\ scanPc = "laid"
    /\ Len(layoutEdges) >= 2
    /\ \E i, j \in 1..Len(edges) :
          /\ i < j
          /\ edges[i].sourceId = edges[j].sourceId
          /\ edges[i].targetId = edges[j].targetId

----------------------------------------------------------------------------
(* Properties of the composed geometry *)

\* the layout has an edge whose two anchors coincide: the source node's x plus the
\* width of a card is the target node's x, and both have the same y
CoincidingAnchors(layout) ==
    \E k \in 1..Len(layout.edges) : \E a, b \in 1..Len(layout.nodes) :
        /\ layout.nodes[a].id = layout.edges[k].sourceId
        /\ layout.nodes[b].id = layout.edges[k].targetId
        /\ layout.nodes[b].x = layout.nodes[a].x + 324
        /\ layout.nodes[b].y = layout.nodes[a].y

\* the generation of the last step ran its arrow loop
ArrowsDrawn ==
    /\ msg.type = "settled"
    /\ msg.api = "loadFontAsync"
    /\ "gen" \in DOMAIN msg
    /\ msg.gen.pc = "arrowFont"

\* C24: a generation whose layout has an edge with coinciding anchors completes,
\* and none of its arrows has a NaN position or path.
C24_ZeroLengthEdgeHandled ==
    (ArrowsDrawn /\ CoincidingAnchors(msg.gen.layout)) =>
        /\ Completed
        /\ \A k \in 1..Len(ItemsOf(msg.gen.gen, "arrow")) :
              LET arrow == ItemsOf(msg.gen.gen, "arrow")[k]
              IN arrow.x # "NaN" /\ arrow.y # "NaN" /\ arrow.path # "NaN"

\* the last step resumed a generation whose container is in the document
ContainerComposed ==
    /\ msg.type = "settled"
    /\ "gen" \in DOMAIN msg
    /\ PageOf(pages, msg.gen.gen, "container", 0) # 0

\* C25: the container of a generation is as wide as the spread of its layout's x
\* coordinates plus the width of a card plus 80, and as high as the spread of the y
\* coordinates plus the height of a card plus 80, the card size being the one the
\* cards were given; every card in it keeps a margin of at least 40 to each of its
\* four sides, and once all cards are in, the margin is exactly 40 on each side.
C25_ContainerBoundsCards ==
    ContainerComposed =>
        LET layout == msg.gen.layout
            container == ContainerOf(msg.gen.gen)
            cards == ItemsOf(msg.gen.gen, "card")
            K == 1..Len(cards)
            xs == {layout.nodes[k].x : k \in 1..Len(layout.nodes)}
            ys == {layout.nodes[k].y : k \in 1..Len(layout.nodes)}
            Spread(S) == (CHOOSE hi \in S : \A v \in S : v <= hi)
                         - (CHOOSE lo \in S : \A v \in S : lo <= v)
        IN /\ \A k \in K :
                /\ container.width = Spread(xs) + cards[k].frame.width + 80
                /\ container.height = Spread(ys) + cards[k].frame.height + 80
                /\ cards[k].frame.x >= 40
                /\ cards[k].frame.y >= 40
                /\ cards[k].frame.x + cards[k].frame.width <= container.width - 40
                /\ cards[k].frame.y + cards[k].frame.height <= container.height - 40
           /\ Len(cards) = Len(layout.nodes) =>
                /\ \E k \in K : cards[k].frame.x = 40
                /\ \E k \in K : cards[k].frame.y = 40
                /\ \E k \in K : cards[k].frame.x + cards[k].frame.width = container.width - 40
                /\ \E k \in K : cards[k].frame.y + cards[k].frame.height = container.height - 40

\* the three scattered cards are all in their container
C25_Witness ==
    /\ ContainerComposed
    /\ Len(msg.gen.layout.nodes) = 3
    /\ Len(ItemsOf(msg.gen.gen, "card")) = 3
    /\ ContainerOf(msg.gen.gen).width = 854
    /\ ContainerOf(msg.gen.gen).height = 854

\* C30: the card composed for a layout node has the width and the height recorded
\* in its LayoutNode, 324 by 252.
C30_CardSizeIsLayoutSize ==
    ContainerComposed =>
        LET layout == msg.gen.layout
            cards == ItemsOf(msg.gen.gen, "card")
        IN \A k \in 1..Len(cards) : \E n \in 1..Len(layout.nodes) :
              /\ layout.nodes[n].id = cards[k].id
              /\ cards[k].frame.width = layout.nodes[n].width
              /\ cards[k].frame.height = layout.nodes[n].height
              /\ cards[k].frame.width = 324
              /\ cards[k].frame.height = 252

----------------------------------------------------------------------------
(* Properties of the nodes of the graph *)

\* C26: every node of the graph is the source or the target of one of its edges, so
\* there are no nodes exactly when there are no edges; a scan that has read no
\* qualifying record returns no nodes, no edges and no starting points, whatever
\* frames the page holds and whatever starting points it declares.
C26_NodesHaveEdges ==
    /\ \A i \in 1..Len(nodeMap) : Mentions(nodeMap[i].id) # {}
    /\ (nodeMap = <<>>) <=> (edges = <<>>)
    /\ (scanPc = "done" /\ edges = <<>>) =>
          /\ nodeMap = <<>>
          /\ startingPointIds = <<>>

\* a scan of the page has returned after reading records none of which qualified,
\* the page declaring a starting point
C26_Witness ==
    /\ scanPc = "done"
    /\ nRecords >= 2
    /\ edges = <<>>
    /\ startingPointIds = <<>>
    /\ flowStartingPoints.defined
    /\ flowStartingPoints.items # <<>>

----------------------------------------------------------------------------
(* Properties of the screen limit at generation *)

\* C27: a generation creates its container and cards, and completes, only if its
\* layout has no more nodes than maxScreens of the tier that was active when its
\* generate message was handled: at most 10 under the free tier.
C27_GenerateTierLimit ==
    (ContainerComposed \/ Completed) =>
        (msg.gen.tier.maxScreens.kind = "number" =>
            Len(msg.gen.layout.nodes) <= msg.gen.tier.maxScreens.n)

----------------------------------------------------------------------------
(* Properties of the stored diagram page *)

\* C28: an export message handled before any generate message posts the error
\* 'No diagram to export. Generate one first.' and calls no host export; from the
\* first generate message on the stored diagram page is set, and no step resets it.
C28_DiagramPageStored ==
    /\ []((msg.type = "export" /\ nGen = 0) =>
            /\ posted = <<[type |-> "error",
                           message |-> <<"No diagram to export. Generate one first.">>]>>
            /\ calls = <<>>
            /\ exports = <<>>)
    /\ [](nGen >= 1 => diagramPage # 0)
    /\ [][diagramPage # 0 => diagramPage' # 0]_vars

C28_Witness ==
    /\ msg.type = "export"
    /\ nGen = 0
    /\ Len(posted) = 1
    /\ posted[1].type = "error"

----------------------------------------------------------------------------
(* Properties of an export that overlaps a generation *)

\* the last step was an export message that called the host export
HostExportCalled ==
    /\ msg.type = "export"
    /\ calls # <<>>

\* the frame exportDiagram picked: the first 'Flow Diagram' child of diagramPage
ExportedFrame == pages[diagramPage].children[FindFrame(pages[diagramPage].children)]

\* what the generation g has still to add to its container: cards, or the arrows
\* and badges of its drawable edges
StillMissing(g, frame) ==
    LET IsCard(c) == c.part = "card"
    IN \/ Len(SelectSeq(frame.children, IsCard)) < Len(g.layout.nodes)
       \/ Drawable(g.layout) # <<>>

\* C29: when an export message calls the host export, the 'Flow Diagram' container
\* it exports does not belong to a generation that is suspended on an await and has
\* cards, arrows or badges still to add to it.
C29_ExportsComposedDiagram ==
    HostExportCalled =>
        \A g \in gens : g.gen = ExportedFrame.gen => ~StillMissing(g, ExportedFrame)

====
